---- MODULE Spec2Model ----
(***************************************************************************)
(* Model of backend/services/github.py (GitHubService) and the shared      *)
(* Rate-Limit Record it keeps in Redis through LUA_UPDATE_RATE_LIMIT.      *)
(*                                                                         *)
(* Tasks are concurrent get() calls (in one process or several).  Every    *)
(* await of the code is a step boundary; code between two awaits is one    *)
(* action.  The Redis server runs the Lua script as one atomic action.     *)
(* Time is in whole seconds; `now` is the wall clock shared by the tasks   *)
(* and by the Redis server.                                                *)
(***************************************************************************)
EXTENDS Integers, Sequences, FiniteSets, TLC

\* ---------------------------------------------------------------- bounds
MaxPages == 2
MaxTime == 60
\* Requests the upstream server answers in one run, over all callers.
MaxIssued == 3
\* get_client / close calls one task makes in one run.
MaxOps == 4
\* The provider's quota: requests it allows in one window, and the instant the
\* window that is open at 0 ends (later than MaxTime).
Quota == 2
WindowEnd == 100
TickSteps == {30}

\* ------------------------------------------------------ program constants
LowWaterMark == 10
MinTtl == 60

\* ------------------------------------------------------------ input sets
Absent == -1
Tasks == {1, 2}

\* The four keys of the Rate-Limit Record (KEYS[1..4] of the script).
Keys == {"timestamp", "reset", "remaining", "limit"}

NoEntry == [val |-> Absent, exp |-> 0, src |-> 0]
NoResponse == [status |-> 0, reset |-> Absent, remaining |-> Absent,
               limit |-> Absent, next |-> FALSE, seq |-> 0]
NoArgs == [ts |-> 0, ttl |-> 0]
NotSeen == [rem |-> Absent, rst |-> Absent, at |-> 0, src |-> 0]

\* Query parameters: None, the empty dict, the caller's dict.
NoParams == 0
EmptyParams == 1
CallerParams == 2
\* URLs: base_url/endpoint is 0, the next link supplied by page n is n.
EndpointUrl == 0
NoUrl == Absent
NoCall == [params |-> NoParams, current_params |-> NoParams, url |-> NoUrl, results |-> <<>>]
NoReturn == <<Absent>>

\* The two classes that keep a singleton connection; connection objects are
\* numbered from 1 in the order they are created, per class.
Classes == {"GitHubService", "RedisClient"}
NoConn == 0
NoTask == 0

\* A Link header: up to MaxEntries entries <url>; rel="name", each with or
\* without a blank after the semicolon, joined by a comma or a comma and a
\* blank.  An entry that is not closed lacks its ">" (<url; rel="name").  A header is a sequence of tokens:
\* the delimiters are single characters, "rel=\"next\"" stands for its ten
\* characters, and the other tokens of a URL for runs of URL characters.
MaxEntries == 3
SpacesAfterSemicolon == {0, 1}
Urls == {<<"page2">>, <<"page3">>, <<"page4", ";", "v=1", ",", "2">>}
Rels == {"next", "prev", "last"}
Separators == {<<",">>, <<",", " ">>}
ClosedEntries == [url : Urls, rel : Rels, ws : SpacesAfterSemicolon, closed : {TRUE}]
UnterminatedEntries == [url : {<<"page2">>}, rel : Rels, ws : {1}, closed : {FALSE}]
LinkEntries == ClosedEntries \cup UnterminatedEntries
NoLink == [entries |-> <<>>, sep |-> <<",">>]
NotParsed == <<"not parsed">>
None == <<>>

\* Calls of the two endpoint methods: at most MaxCalls of them in one run, for
\* these users and page sizes (Omitted: the caller leaves per_page out).
MaxCalls == 2
DefaultPerPage == 100
Omitted == 0
Usernames == {"octo", "hubot", "mona"}
PerPages == {1, 50, 100}

VARIABLES
    now,            \* wall clock, seconds
    store,          \* Redis: key -> [val, exp, src]; val = Absent when the key does not exist
    issued,         \* number of responses the upstream server has issued
    pc,             \* task -> position in get()
    paginate,       \* task -> the paginate argument of its get()
    seen,           \* task -> what its _check_rate_limit read: remaining (and the response it came from), reset_time, and when
    wake,           \* task -> instant its asyncio.sleep ends (0: it did not sleep)
    response,       \* task -> the response it waits for / processes
    args,           \* task -> ARGV[1], ARGV[2] of its pending eval, set before the await
    applied,        \* task -> return value of its last eval (Absent: none yet)
    nCheck,         \* task -> pre-flight checks completed in this get()
    nReq,           \* task -> HTTP requests issued in this get()
    nOk,            \* task -> 2xx responses received in this get()
    nNext,          \* task -> responses that carried a next link in this get()
    nSync,          \* task -> calls of _update_rate_limit in this get()
    call,           \* task -> locals of get(): params, current_params, url, results
    ret,            \* task -> what get() returned (NoReturn: nothing)
    client,         \* GitHubService._client: the AsyncClient it refers to (NoConn: None)
    instance,       \* RedisClient._instance: the Redis object it refers to (NoConn: None)
    lock,           \* RedisClient._lock: the task that holds it (NoTask: free)
    made,           \* class -> number of connection objects created so far
    closes,         \* class -> for each object created, the aclose()/close() calls made on it
    cpc,            \* task -> position in its get_client / close call
    op,             \* task -> the connection operation it called last
    ops,            \* task -> number of connection operations it has called
    got,            \* task -> class -> the object its last get_client returned
    closing,        \* task -> the object whose aclose()/close() it awaits
    blocked,        \* task -> its last get_client found the lock held
    link,           \* the Link header handed to _extract_next_url: its entries and separator
    next_url,       \* what _extract_next_url returned (NotParsed: not called yet)
    wrapper_calls,  \* the calls of get_user_info / get_user_events made so far
    get_calls       \* the calls of get() those calls made: endpoint, params, paginate

\* The variables of get() and those of the connection singletons.
getVars == <<now, store, issued, pc, paginate, seen, wake,
             response, args, applied, nCheck, nReq, nOk, nNext, nSync,
             call, ret>>
connVars == <<client, instance, lock, made, closes, cpc, op, ops, got, closing, blocked>>

linkVars == <<link, next_url>>
wrapVars == <<wrapper_calls, get_calls>>

vars == <<getVars, connVars, linkVars, wrapVars>>

taskLocals == <<paginate, seen, wake, response, args,
                applied, nCheck, nReq, nOk, nNext, nSync, call, ret>>

Max(a, b) == IF a >= b THEN a ELSE b

\* ------------------------------------------------------------ Redis
\* redis GET: the value, or Absent for a key that does not exist.
RedisGet(k) == store[k].val

\* Mutant: keys never expire.
ExpireNever(s, t) == s

\* A key set with EX ttl at instant t no longer exists from t + ttl on.
Expire(s, t) == [k \in Keys |-> IF s[k].val # Absent /\ s[k].exp <= t
                                THEN NoEntry ELSE s[k]]

\* Mutants of the fence: no fence at all; a strict comparison.
LuaFenceNone(stored, current) == TRUE
LuaFenceStrict(stored, current) == stored = Absent \/ stored < current

\* The fence of the script: not stored_timestamp or stored <= current.
LuaFence(stored, current) == stored = Absent \/ stored <= current

\* Mutant of the SETs: the reset key is given ARGV[3] instead of ARGV[2] as its EX.
LuaWritesResetTtl(s, a, t) ==
    LET e(v, ttl) == [val |-> v, exp |-> t + ttl, src |-> a.src]
    IN [k \in Keys |->
          CASE k = "timestamp" -> e(a.ts, a.ttl)
            [] k = "reset"     -> e(a.reset, a.reset)
            [] k = "remaining" -> IF a.remaining # Absent THEN e(a.remaining, a.ttl) ELSE s[k]
            [] k = "limit"     -> IF a.limit # Absent THEN e(a.limit, a.ttl) ELSE s[k]]

\* Mutant of the SETs: ARGV[4] and ARGV[5] are written whatever they are.
LuaWritesAlways(s, a, t) ==
    LET e(v) == [val |-> v, exp |-> t + a.ttl, src |-> a.src]
    IN [k \in Keys |->
          CASE k = "timestamp" -> e(a.ts)
            [] k = "reset"     -> e(a.reset)
            [] k = "remaining" -> e(a.remaining)
            [] k = "limit"     -> e(a.limit)]

\* The SETs of the script's then-branch, ARGV[4] / ARGV[5] skipped when ''.
LuaWrites(s, a, t) ==
    LET e(v) == [val |-> v, exp |-> t + a.ttl, src |-> a.src]
    IN [k \in Keys |->
          CASE k = "timestamp" -> e(a.ts)
            [] k = "reset"     -> e(a.reset)
            [] k = "remaining" -> IF a.remaining # Absent THEN e(a.remaining) ELSE s[k]
            [] k = "limit"     -> IF a.limit # Absent THEN e(a.limit) ELSE s[k]]

\* LUA_UPDATE_RATE_LIMIT: <<new store, return value>>.
LuaUpdateRateLimit(s, a, t) ==
    IF LuaFence(s["timestamp"].val, a.ts)
    THEN <<LuaWrites(s, a, t), 1>>
    ELSE <<s, 0>>

\* ------------------------------------------------------------ initial state
InitProgram ==
    /\ now = 0
    /\ store = [k \in Keys |-> NoEntry]
    /\ issued = 0
    /\ pc = [t \in Tasks |-> "idle"]
    /\ paginate = [t \in Tasks |-> FALSE]
    /\ seen = [t \in Tasks |-> NotSeen]
    /\ wake = [t \in Tasks |-> 0]
    /\ response = [t \in Tasks |-> NoResponse]
    /\ args = [t \in Tasks |-> NoArgs]
    /\ applied = [t \in Tasks |-> Absent]
    /\ nCheck = [t \in Tasks |-> 0]
    /\ nReq = [t \in Tasks |-> 0]
    /\ nOk = [t \in Tasks |-> 0]
    /\ nNext = [t \in Tasks |-> 0]
    /\ nSync = [t \in Tasks |-> 0]
    /\ call = [t \in Tasks |-> NoCall]
    /\ ret = [t \in Tasks |-> NoReturn]
    /\ client = NoConn
    /\ instance = NoConn
    /\ lock = NoTask
    /\ made = [k \in Classes |-> 0]
    /\ closes = [k \in Classes |-> <<>>]
    /\ cpc = [t \in Tasks |-> "idle"]
    /\ op = [t \in Tasks |-> "none"]
    /\ ops = [t \in Tasks |-> 0]
    /\ got = [t \in Tasks |-> [k \in Classes |-> NoConn]]
    /\ closing = [t \in Tasks |-> NoConn]
    /\ blocked = [t \in Tasks |-> FALSE]

Init ==
    /\ InitProgram
    /\ link = NoLink
    /\ next_url = NotParsed
    /\ wrapper_calls = <<>>
    /\ get_calls = <<>>

\* ------------------------------------------------------------ time
Tick ==
    \E d \in TickSteps :
        /\ now + d <= MaxTime
        /\ now' = now + d
        /\ store' = Expire(store, now + d)
        /\ UNCHANGED <<issued, pc, taskLocals, connVars, linkVars, wrapVars>>

\* ------------------------------------------------------------ get()
\* Responses the upstream server can issue.  A response is 2xx or not, may
\* carry each of the three rate-limit headers, and may carry a Link header
\* with a rel="next" entry.
Headers ==
    { [reset |-> Absent, remaining |-> Absent, limit |-> Absent],
      [reset |-> Absent, remaining |-> 5,      limit |-> 5000],
      [reset |-> 30,     remaining |-> 5,      limit |-> 5000],
      [reset |-> 100,    remaining |-> 100,    limit |-> 5000],
      [reset |-> 30,     remaining |-> Absent, limit |-> Absent] }
ErrorHeaders == { [reset |-> 100, remaining |-> 5, limit |-> 5000] }
Responses ==
    { [status |-> 200, reset |-> h.reset, remaining |-> h.remaining,
       limit |-> h.limit, next |-> n] : h \in Headers, n \in BOOLEAN }
    \cup
    { [status |-> st, reset |-> h.reset, remaining |-> h.remaining,
       limit |-> h.limit, next |-> FALSE] : h \in ErrorHeaders, st \in {304, 404} }

\* Mutant: only 4xx and 5xx raise.
RaisesForClientOrServerError(status) == status >= 400

\* httpx response.raise_for_status(): raises unless the status is 2xx.
RaisesForStatus(status) == ~(status >= 200 /\ status <= 299)

\* Mutants: sleeping wait_seconds without the extra second; sleeping whatever
\* remaining is.
SleepSecondsNoPad(rem, rst, t) ==
    IF rem # Absent /\ rem < LowWaterMark /\ rst # Absent /\ rst - t > 0
    THEN rst - t
    ELSE 0
SleepSecondsAnyRemaining(rem, rst, t) ==
    IF rem # Absent /\ rst # Absent /\ rst - t > 0
    THEN (rst - t) + 1
    ELSE 0

\* _check_rate_limit: the argument of asyncio.sleep, 0 when it does not sleep.
SleepSeconds(rem, rst, t) ==
    IF rem # Absent /\ rem < LowWaterMark /\ rst # Absent /\ rst - t > 0
    THEN (rst - t) + 1
    ELSE 0

\* Mutant: any of the three rate-limit headers starts the update.
HasAnyRateLimitHeader(r) ==
    r.reset # Absent \/ r.remaining # Absent \/ r.limit # Absent

\* _update_rate_limit, lines 113-114: "X-RateLimit-Reset" in response.headers
HasResetHeader(r) == r.reset # Absent

\* Mutant: the TTL has no floor.
UpdateArgsNoFloor(r, t) == [ts |-> t, ttl |-> r.reset - t]

\* _update_rate_limit, lines 116-121: ARGV of the eval for response r at instant t.
UpdateArgs(r, t) == [ts |-> t, ttl |-> Max(r.reset - t, MinTtl)]

\* The eval call, lines 125-137: ARGV[1..5] (src names the response they come from).
EvalArgv(a, r) ==
    [ts |-> a.ts, ttl |-> a.ttl, reset |-> r.reset, remaining |-> r.remaining,
     limit |-> r.limit, src |-> r.seq]

\* Mutant: only the first response of a call is synced.
SyncsFirstPageOnly(pg, n) == n = 1

\* Whether get() calls _update_rate_limit for the n-th response of a call, once
\* raise_for_status has let it through: it does, on both paths.
SyncsPage(pg, n) == TRUE

\* Mutant: get() returns after its first page whatever the Link header says.
AfterSyncStopsEarly(pg, r) == "done"

\* Where get() goes once a page has been synced: the pagination loop tests
\* `while url` and issues the next client.get, or get() returns.
AfterSync(pg, r) == IF pg /\ r.next THEN "request" ELSE "done"

\* Mutant: an update that was not applied is an error.
AfterEvalRaisesIfNotApplied(res, pg, r) ==
    IF res = 0 THEN "raised" ELSE AfterSync(pg, r)

\* Where get() goes once the eval has returned res: _update_rate_limit does
\* not look at the value, lines 125-137.
AfterEval(res, pg, r) == AfterSync(pg, r)

\* response.json(): the items of page n of the collection task t asks for.
ResponseJson(t, n) == [i \in 1..(1 + (n % 2)) |-> 100 * t + 10 * n + i]

\* Mutants of results.extend: the page is put in front; the page replaces the list.
ExtendInFront(results, items) == items \o results
ExtendReplaces(results, items) == items

\* results.extend(response.json())
Extend(results, items) == results \o items

\* Mutant: the parameters are kept for the next page.
ParamsKept(p) == p

\* current_params = {} at the end of a loop turn.
ParamsAfterPage(p) == EmptyParams

\* current_params = params or {}
ParamsOrEmpty(p) == IF p = NoParams THEN EmptyParams ELSE p

\* The locals of get() as it enters: url (line 171) and, when paginating,
\* results and current_params (lines 180-181).
EnterCall(pg, p) ==
    [params |-> p, current_params |-> IF pg THEN ParamsOrEmpty(p) ELSE p,
     url |-> EndpointUrl, results |-> <<>>]

\* The locals of get() once its request is on its way.  get() reads neither
\* params nor, before line 192 has run, current_params again, so line 192 is
\* taken here; the url is kept until line 191 replaces it.
CallAfterSend(c, pg) ==
    [params |-> NoParams,
     current_params |-> IF pg THEN ParamsAfterPage(c.current_params) ELSE NoParams,
     url |-> c.url, results |-> c.results]

\* The locals of get() once page n, with response r, has been synced: lines
\* 188-191, nothing left when get() returns.
CallAfterPage(c, pg, r, items, n) ==
    IF pg /\ r.next
    THEN [params |-> NoParams, current_params |-> c.current_params,
          url |-> n, results |-> Extend(c.results, items)]
    ELSE NoCall

\* What get() returns once page n has been synced, if it returns: lines 178, 193.
ReturnAfterPage(c, pg, r, items) ==
    IF pg THEN Extend(c.results, items) ELSE items

\* Mutant: the failed request is retried.
AfterErrorRetry == "request"

\* Mutant: the error is swallowed and get() returns.
AfterErrorReturns == "done"

\* The pc get() is left at when raise_for_status raises: the error propagates.
AfterError == "raised"

\* Mutant: get() goes straight to its request.
StartGetNoCheck(t) ==
    /\ UNCHANGED <<connVars, linkVars, wrapVars>>
    /\ pc[t] = "idle"
    /\ \E pg \in BOOLEAN, p \in {NoParams, CallerParams} :
          /\ paginate' = [paginate EXCEPT ![t] = pg]
          /\ call' = [call EXCEPT ![t] = EnterCall(pg, p)]
    /\ pc' = [pc EXCEPT ![t] = "request"]
    /\ UNCHANGED <<now, store, issued, seen, wake, response, args, applied,
                   nCheck, nReq, nOk, nNext, nSync, ret>>

\* get(endpoint, params, paginate) enters _check_rate_limit, whose first cache
\* read is served: remaining = await RedisClient.get(REMAINING).
StartGet(t) ==
    /\ UNCHANGED <<connVars, linkVars, wrapVars>>
    /\ pc[t] = "idle"
    /\ \E pg \in BOOLEAN, p \in {NoParams, CallerParams} :
          /\ paginate' = [paginate EXCEPT ![t] = pg]
          /\ call' = [call EXCEPT ![t] = EnterCall(pg, p)]
    /\ seen' = [seen EXCEPT ![t] = [rem |-> RedisGet("remaining"), rst |-> Absent, at |-> 0,
                                     src |-> store["remaining"].src]]
    /\ pc' = [pc EXCEPT ![t] = "check_reset"]
    /\ UNCHANGED <<now, store, issued, wake, response, args, applied,
                   nCheck, nReq, nOk, nNext, nSync, ret>>

\* reset_time = await RedisClient.get(RESET), then the throttle decision.
ReadReset(t) ==
    /\ UNCHANGED <<connVars, linkVars, wrapVars>>
    /\ pc[t] = "check_reset"
    /\ LET reset_time == RedisGet("reset")
           secs == SleepSeconds(seen[t].rem, reset_time, now)
       IN /\ seen' = [seen EXCEPT ![t] = [rem |-> seen[t].rem, rst |-> reset_time, at |-> now,
                                          src |-> seen[t].src]]
          /\ wake' = [wake EXCEPT ![t] = IF secs > 0 THEN now + secs ELSE 0]
          /\ pc' = [pc EXCEPT ![t] = IF secs > 0 THEN "sleep" ELSE "request"]
    /\ nCheck' = [nCheck EXCEPT ![t] = @ + 1]
    /\ UNCHANGED <<now, store, issued, paginate, response, args, applied,
                   nReq, nOk, nNext, nSync, call, ret>>

\* Mutant: after the sleep the check reads the reset key again.
AfterSleepChecksAgain == "check_reset"

\* Where get() goes when the sleep of _check_rate_limit is over: the sleep is
\* the last statement of the check (line 109), get() goes on at line 171.
AfterSleep == "request"

\* asyncio.sleep(wait_seconds + 1) ends.
Wake(t) ==
    /\ UNCHANGED <<connVars, linkVars, wrapVars>>
    /\ pc[t] = "sleep"
    /\ now >= wake[t]
    /\ pc' = [pc EXCEPT ![t] = AfterSleep]
    /\ UNCHANGED <<now, store, issued, paginate, seen, wake, response, args,
                   applied, nCheck, nReq, nOk, nNext, nSync, call, ret>>

\* Mutant: the next page is asked for while the sync of the page before it is
\* still pending.
SendRequestBeforeSync(t) ==
    /\ UNCHANGED <<connVars, linkVars, wrapVars>>
    /\ pc[t] \in {"request", "eval"}
    /\ pc[t] = "eval" => paginate[t] /\ response[t].next
    /\ issued < MaxIssued
    /\ \E r \in Responses :
          /\ r.next => nReq[t] + 1 < MaxPages
          /\ response' = [response EXCEPT ![t] =
                 [status |-> r.status, reset |-> r.reset, remaining |-> r.remaining,
                  limit |-> r.limit, next |-> r.next, seq |-> issued + 1]]
    /\ issued' = issued + 1
    /\ nReq' = [nReq EXCEPT ![t] = @ + 1]
    /\ seen' = [seen EXCEPT ![t] = NotSeen]
    /\ wake' = [wake EXCEPT ![t] = 0]
    /\ pc' = [pc EXCEPT ![t] = "await_response"]
    /\ call' = [call EXCEPT ![t] = CallAfterSend(call[t], paginate[t])]
    /\ UNCHANGED <<now, store, paginate, args, applied, nCheck, nOk, nNext, nSync, ret>>

\* client.get(url, headers, params=current_params): the request, with the url
\* and the parameters get() holds, reaches the server, which issues a response.
\* The locals of _check_rate_limit are gone by now.
SendRequest(t) ==
    /\ UNCHANGED <<connVars, linkVars, wrapVars>>
    /\ pc[t] = "request"
    /\ issued < MaxIssued
    /\ \E r \in Responses :
          /\ r.next => nReq[t] + 1 < MaxPages
          /\ response' = [response EXCEPT ![t] =
                 [status |-> r.status, reset |-> r.reset, remaining |-> r.remaining,
                  limit |-> r.limit, next |-> r.next, seq |-> issued + 1]]
    /\ issued' = issued + 1
    /\ nReq' = [nReq EXCEPT ![t] = @ + 1]
    /\ seen' = [seen EXCEPT ![t] = NotSeen]
    /\ wake' = [wake EXCEPT ![t] = 0]
    /\ pc' = [pc EXCEPT ![t] = "await_response"]
    /\ call' = [call EXCEPT ![t] = CallAfterSend(call[t], paginate[t])]
    /\ UNCHANGED <<now, store, paginate, args, applied, nCheck, nOk, nNext, nSync, ret>>

\* The response arrives: raise_for_status, then _update_rate_limit up to its
\* first await (no reset header: it returns at once and get() goes on).
ReceiveResponse(t) ==
    /\ UNCHANGED <<connVars, linkVars, wrapVars>>
    /\ pc[t] = "await_response"
    /\ LET r == response[t]
           items == ResponseJson(t, nReq[t])
       IN
         IF RaisesForStatus(r.status)
         THEN /\ pc' = [pc EXCEPT ![t] = AfterError]
              /\ response' = [response EXCEPT ![t] = NoResponse]
              /\ call' = [call EXCEPT ![t] = NoCall]
              /\ UNCHANGED <<args, nOk, nNext, nSync, ret>>
         ELSE /\ nOk' = [nOk EXCEPT ![t] = @ + 1]
              /\ nSync' = [nSync EXCEPT ![t] =
                      IF SyncsPage(paginate[t], nReq[t]) THEN @ + 1 ELSE @]
              /\ nNext' = [nNext EXCEPT ![t] = IF paginate[t] /\ r.next THEN @ + 1 ELSE @]
              /\ IF ~HasResetHeader(r) \/ ~SyncsPage(paginate[t], nReq[t])
                 THEN /\ pc' = [pc EXCEPT ![t] = AfterSync(paginate[t], r)]
                      /\ response' = [response EXCEPT ![t] = NoResponse]
                      /\ call' = [call EXCEPT ![t] =
                             CallAfterPage(call[t], paginate[t], r, items, nReq[t])]
                      /\ ret' = [ret EXCEPT ![t] =
                             IF AfterSync(paginate[t], r) = "done"
                             THEN ReturnAfterPage(call[t], paginate[t], r, items)
                             ELSE @]
                      /\ UNCHANGED args
                 ELSE /\ pc' = [pc EXCEPT ![t] = "eval"]
                      /\ args' = [args EXCEPT ![t] = UpdateArgs(r, now)]
                      /\ UNCHANGED <<response, call, ret>>
    /\ UNCHANGED <<now, store, issued, paginate, seen, wake, applied, nCheck, nReq>>

\* await client.eval(LUA_UPDATE_RATE_LIMIT, ...): the script runs on the server.
Eval(t) ==
    /\ UNCHANGED <<connVars, linkVars, wrapVars>>
    /\ pc[t] = "eval"
    /\ LET out == LuaUpdateRateLimit(store, EvalArgv(args[t], response[t]), now)
           r == response[t]
           items == ResponseJson(t, nReq[t])
       IN /\ store' = out[1]
          /\ applied' = [applied EXCEPT ![t] = out[2]]
          /\ pc' = [pc EXCEPT ![t] = AfterEval(out[2], paginate[t], r)]
          /\ call' = [call EXCEPT ![t] =
                 CallAfterPage(call[t], paginate[t], r, items, nReq[t])]
          /\ ret' = [ret EXCEPT ![t] =
                 IF AfterEval(out[2], paginate[t], r) = "done"
                 THEN ReturnAfterPage(call[t], paginate[t], r, items)
                 ELSE @]
    /\ response' = [response EXCEPT ![t] = NoResponse]
    /\ args' = [args EXCEPT ![t] = NoArgs]
    /\ UNCHANGED <<now, issued, paginate, seen, wake, nCheck, nReq, nOk, nNext, nSync>>

\* Mutant: a sync that cannot reach the cache is skipped.
AfterCacheErrorSkipsSync(p) == IF p = "eval" THEN "request" ELSE "failed"

\* Mutant: a check that cannot read the cache lets the request through.
AfterCacheErrorFailsOpen(p) == IF p = "eval" THEN "failed" ELSE "request"

\* The pc get() is left at when a cache call made at pc p raises: nothing in
\* RedisClient.get, _check_rate_limit, _update_rate_limit or get() catches it.
AfterCacheError(p) == "failed"

\* A cache call of get() finds Redis unreachable: the ConnectionError of
\* RedisClient.get (either read of the check) or of client.eval propagates.
CacheUnreachable(t) ==
    /\ UNCHANGED <<connVars, linkVars, wrapVars>>
    /\ pc[t] \in {"idle", "check_reset", "eval"}
    /\ pc' = [pc EXCEPT ![t] = AfterCacheError(pc[t])]
    /\ seen' = [seen EXCEPT ![t] = NotSeen]
    /\ response' = [response EXCEPT ![t] = NoResponse]
    /\ args' = [args EXCEPT ![t] = NoArgs]
    /\ call' = [call EXCEPT ![t] = NoCall]
    /\ UNCHANGED <<now, store, issued, paginate, wake, applied, nCheck, nReq, nOk,
                   nNext, nSync, ret>>

\* The HTTP request of get() fails in transit: the transport error of
\* client.get propagates.
RequestFails(t) ==
    /\ UNCHANGED <<connVars, linkVars, wrapVars>>
    /\ pc[t] = "await_response"
    /\ pc' = [pc EXCEPT ![t] = "failed"]
    /\ response' = [response EXCEPT ![t] = NoResponse]
    /\ call' = [call EXCEPT ![t] = NoCall]
    /\ UNCHANGED <<now, store, issued, paginate, seen, wake, args, applied, nCheck,
                   nReq, nOk, nNext, nSync, ret>>

\* Mutant: the update is made with one SET per key, and the cancellation can
\* fall between the first SET and the others.
CancelledEvalOutcomesPerKey(s, a, t) ==
    {s, LuaUpdateRateLimit(s, a, t)[1],
     [s EXCEPT !["timestamp"] = LuaUpdateRateLimit(s, a, t)[1]["timestamp"]]}

\* What a cancelled `await client.eval(...)` can leave in Redis: the command
\* did not reach the server, or it did and the script ran, as a whole.
CancelledEvalOutcomes(s, a, t) == {s, LuaUpdateRateLimit(s, a, t)[1]}

\* The task of get() is cancelled while it is suspended: in the second cache
\* read or the sleep of the check, in client.get, or in client.eval.  The
\* CancelledError propagates through get(), whose locals are gone.
Cancel(t) ==
    /\ UNCHANGED <<connVars, linkVars, wrapVars>>
    /\ pc[t] \in {"check_reset", "sleep", "await_response", "eval"}
    /\ IF pc[t] = "eval"
       THEN store' \in CancelledEvalOutcomes(store, EvalArgv(args[t], response[t]), now)
       ELSE store' = store
    /\ pc' = [pc EXCEPT ![t] = "cancelled"]
    /\ seen' = [seen EXCEPT ![t] = NotSeen]
    /\ wake' = [wake EXCEPT ![t] = 0]
    /\ response' = [response EXCEPT ![t] = NoResponse]
    /\ args' = [args EXCEPT ![t] = NoArgs]
    /\ call' = [call EXCEPT ![t] = NoCall]
    /\ UNCHANGED <<now, issued, paginate, applied, nCheck, nReq, nOk, nNext, nSync, ret>>

Next ==
    \/ Tick
    \/ \E t \in Tasks : StartGet(t)
    \/ \E t \in Tasks : ReadReset(t)
    \/ \E t \in Tasks : Wake(t)
    \/ \E t \in Tasks : SendRequest(t)
    \/ \E t \in Tasks : ReceiveResponse(t)
    \/ \E t \in Tasks : Eval(t)
    \/ \E t \in Tasks : CacheUnreachable(t)
    \/ \E t \in Tasks : RequestFails(t)
    \/ \E t \in Tasks : Cancel(t)

Spec == Init /\ [][Next]_vars

\* An upstream server that counts: within the window that ends at WindowEnd it
\* answers the n-th request with remaining = Quota - n, and refuses the
\* requests beyond its quota with 403.
ProviderResponse(n, nxt) ==
    [status |-> IF n > Quota THEN 403 ELSE 200,
     reset |-> WindowEnd, remaining |-> Max(Quota - n, 0), limit |-> Quota,
     next |-> nxt /\ n <= Quota, seq |-> n]

\* SendRequest, answered by that server.
ServeRequest(t) ==
    /\ UNCHANGED <<connVars, linkVars, wrapVars>>
    /\ pc[t] = "request"
    /\ issued < MaxIssued
    /\ \E nxt \in BOOLEAN :
          /\ nxt => nReq[t] + 1 < MaxPages
          /\ response' = [response EXCEPT ![t] = ProviderResponse(issued + 1, nxt)]
    /\ issued' = issued + 1
    /\ nReq' = [nReq EXCEPT ![t] = @ + 1]
    /\ seen' = [seen EXCEPT ![t] = NotSeen]
    /\ wake' = [wake EXCEPT ![t] = 0]
    /\ pc' = [pc EXCEPT ![t] = "await_response"]
    /\ call' = [call EXCEPT ![t] = CallAfterSend(call[t], paginate[t])]
    /\ UNCHANGED <<now, store, paginate, args, applied, nCheck, nOk, nNext, nSync, ret>>

\* The tasks of get() against that server, nothing failing, within the one
\* window: a task that sleeps does so until WindowEnd + 1.
NextQuota ==
    \/ Tick
    \/ \E t \in Tasks : StartGet(t)
    \/ \E t \in Tasks : ReadReset(t)
    \/ \E t \in Tasks : ServeRequest(t)
    \/ \E t \in Tasks : ReceiveResponse(t)
    \/ \E t \in Tasks : Eval(t)

SpecQuota == Init /\ [][NextQuota]_vars

\* ------------------------------------------------------------ Link header

\* The characters of a header.
RelToken(rel) ==
    IF rel = "next" THEN "rel=\"next\""
    ELSE IF rel = "prev" THEN "rel=\"prev\"" ELSE "rel=\"last\""

Blanks(n) == [i \in 1..n |-> " "]

EntryTokens(e) ==
    <<"<">> \o e.url \o (IF e.closed THEN <<">">> ELSE <<>>) \o <<";">>
            \o Blanks(e.ws) \o <<RelToken(e.rel)>>

RECURSIVE Join(_, _)
Join(es, sep) ==
    IF es = <<>> THEN <<>>
    ELSE IF Len(es) = 1 THEN EntryTokens(es[1])
    ELSE EntryTokens(es[1]) \o sep \o Join(Tail(es), sep)

LinkHeader(l) == Join(l.entries, l.sep)

EntryLists == UNION {[1..n -> LinkEntries] : n \in 0..MaxEntries}
Links == [entries : EntryLists, sep : Separators]

\* The pattern <([^>]+)>;\s*rel="next" of re.search, piece by piece.
\* [^>]+ followed by ">": the group ends before the first ">" (0: there is none).
FirstClose(h, i) ==
    IF \E j \in i..Len(h) : h[j] = ">"
    THEN CHOOSE j \in i..Len(h) : h[j] = ">" /\ \A k \in i..(j - 1) : h[k] # ">"
    ELSE 0

\* \s*
RECURSIVE SkipSpaces(_, _)
SkipSpaces(h, i) == IF i <= Len(h) /\ h[i] = " " THEN SkipSpaces(h, i + 1) ELSE i

RelAny(tok) == tok \in {RelToken(r) : r \in Rels}

\* rel="next"
RelMatches(tok) == tok = "rel=\"next\""

\* The group of the match that starts at position i (None: no match there).
MatchAt(h, i) ==
    LET c == FirstClose(h, i + 1)
    IN  IF /\ h[i] = "<"
           /\ c > i + 1
           /\ c + 1 <= Len(h)
           /\ h[c + 1] = ";"
           /\ LET r == SkipSpaces(h, c + 2) IN r <= Len(h) /\ RelMatches(h[r])
        THEN SubSeq(h, i + 1, c - 1)
        ELSE None

\* re.search: the match with the leftmost start.
RECURSIVE Search(_, _)
Search(h, i) ==
    IF i > Len(h) THEN None
    ELSE IF MatchAt(h, i) # None THEN MatchAt(h, i)
    ELSE Search(h, i + 1)

ExtractNextUrl(h) == IF h = <<>> THEN None ELSE Search(h, 1)

\* _extract_next_url is called with a header.
ExtractNext ==
    /\ next_url = NotParsed
    /\ next_url' = ExtractNextUrl(LinkHeader(link))
    /\ UNCHANGED <<link, getVars, connVars, wrapVars>>

InitLink ==
    /\ InitProgram
    /\ link \in Links
    /\ next_url = NotParsed
    /\ wrapper_calls = <<>>
    /\ get_calls = <<>>

NextLink == ExtractNext

SpecLink == InitLink /\ [][NextLink]_vars

\* ------------------------------------------------------------ pages and their Link headers

\* The Link headers a page is answered with: none; a next entry; a next entry
\* that is not closed; a prev entry that is not closed before a next entry.
PageEntry(rel, closed) == [url |-> <<"page2">>, rel |-> rel, ws |-> 1, closed |-> closed]
PageLink(es) == [entries |-> es, sep |-> <<",", " ">>]
PageLinks ==
    {NoLink,
     PageLink(<<PageEntry("next", TRUE)>>),
     PageLink(<<PageEntry("next", FALSE)>>),
     PageLink(<<PageEntry("prev", FALSE), PageEntry("next", TRUE)>>)}

\* url = self._extract_next_url(response.headers.get("Link")), line 191.
NextUrl(l) == ExtractNextUrl(LinkHeader(l))

\* SendRequest, the response carrying a Link header: "while url" (line 182)
\* goes on when the extracted URL is not None.  The rate-limit headers come
\* all or none.
SendRequestLink(t) ==
    /\ UNCHANGED <<connVars, linkVars, wrapVars>>
    /\ pc[t] = "request"
    /\ issued < MaxIssued
    /\ \E r \in Responses, l \in PageLinks :
          /\ (r.reset = Absent) = (r.remaining = Absent)
          /\ r.next = (r.status = 200 /\ NextUrl(l) # None)
          /\ r.next => nReq[t] + 1 < MaxPages
          /\ response' = [response EXCEPT ![t] =
                 [status |-> r.status, reset |-> r.reset, remaining |-> r.remaining,
                  limit |-> r.limit, next |-> r.next, seq |-> issued + 1, link |-> l]]
    /\ issued' = issued + 1
    /\ nReq' = [nReq EXCEPT ![t] = @ + 1]
    /\ seen' = [seen EXCEPT ![t] = NotSeen]
    /\ wake' = [wake EXCEPT ![t] = 0]
    /\ pc' = [pc EXCEPT ![t] = "await_response"]
    /\ call' = [call EXCEPT ![t] = CallAfterSend(call[t], paginate[t])]
    /\ UNCHANGED <<now, store, paginate, args, applied, nCheck, nOk, nNext, nSync, ret>>

NextPage ==
    \/ Tick
    \/ \E t \in Tasks : StartGet(t)
    \/ \E t \in Tasks : ReadReset(t)
    \/ \E t \in Tasks : Wake(t)
    \/ \E t \in Tasks : SendRequestLink(t)
    \/ \E t \in Tasks : ReceiveResponse(t)
    \/ \E t \in Tasks : Eval(t)

SpecPage == Init /\ [][NextPage]_vars

\* ------------------------------------------------------------ get_user_info, get_user_events

\* A call self.get(endpoint, params=..., paginate=...): the endpoint by its
\* path segments, params as the sequence of its items (<<>>: None).
GetCall(endpoint, params, pg) ==
    [endpoint |-> endpoint, params |-> params, paginate |-> pg]

PerPageAlwaysDefault(pp) == DefaultPerPage

\* per_page: int = 100
PerPageOrDefault(pp) == IF pp = Omitted THEN DefaultPerPage ELSE pp

\* return await self.get("user")
GetUserInfo ==
    /\ Len(wrapper_calls) < MaxCalls
    /\ wrapper_calls' = Append(wrapper_calls, [name |-> "get_user_info"])
    /\ get_calls' = Append(get_calls, GetCall(<<"user">>, <<>>, FALSE))
    /\ UNCHANGED <<getVars, connVars, linkVars>>

\* return await self.get(f"users/{username}/events", params={"per_page": per_page}, paginate=True)
GetUserEvents ==
    /\ Len(wrapper_calls) < MaxCalls
    /\ \E username \in Usernames, per_page \in PerPages \cup {Omitted} :
          /\ wrapper_calls' = Append(wrapper_calls,
                 [name |-> "get_user_events", username |-> username, per_page |-> per_page])
          /\ get_calls' = Append(get_calls,
                 GetCall(<<"users", username, "events">>,
                         <<[key |-> "per_page", value |-> PerPageOrDefault(per_page)]>>,
                         TRUE))
    /\ UNCHANGED <<getVars, connVars, linkVars>>

NextWrap == GetUserInfo \/ GetUserEvents

SpecWrap == Init /\ [][NextWrap]_vars

\* ------------------------------------------------------------ the script, called by any caller

\* ARGV[1] and ARGV[2] as any caller may pass them: a candidate timestamp of
\* its own clock, at or before or after the server's, and an expiry.
CandidateTimestamps == {0, 30, 60}
CandidateTtls == {30, 60}

\* A caller has the script run with arguments of its own; the eval returns.
Invoke(t) ==
    /\ issued < MaxIssued
    /\ \E ts \in CandidateTimestamps, ttl \in CandidateTtls, rem \in {Absent, 5} :
          LET argv == [ts |-> ts, ttl |-> ttl, reset |-> 100, remaining |-> rem,
                       limit |-> 5000, src |-> issued + 1]
              out == LuaUpdateRateLimit(store, argv, now)
          IN  /\ store' = out[1]
              /\ applied' = [applied EXCEPT ![t] = out[2]]
              /\ args' = [args EXCEPT ![t] = [ts |-> ts, ttl |-> ttl]]
    /\ issued' = issued + 1
    /\ UNCHANGED <<now, pc, paginate, seen, wake, response, nCheck, nReq, nOk, nNext,
                   nSync, call, ret, connVars, linkVars, wrapVars>>

NextLua ==
    \/ Tick
    \/ \E t \in Tasks : Invoke(t)

SpecLua == Init /\ [][NextLua]_vars

\* Time passes, and the event loop resumes a task whose sleep is over.
SpecLive ==
    /\ Init /\ [][Next]_vars
    /\ WF_vars(Tick)
    /\ \A t \in Tasks : WF_vars(Wake(t))

\* ------------------------------------------------- connection singletons
\* A task calls get_client or close on one of the two classes.  GitHubService
\* .get_client has no await inside `async with cls._lock`, and acquiring a free
\* asyncio.Lock does not suspend, so the whole call is one action and its lock
\* is never seen held.  RedisClient.get_client awaits redis.from_url while it
\* holds the lock.  Both close calls await the close of the connection.

\* Mutant: the lock is not looked at.
LockIgnored(l) == TRUE

\* async with cls._lock: the lock can be taken when nobody holds it.
LockFree(l) == l = NoTask

\* Mutant: close does not test the reference.
HasConnectionAlways(ref) == TRUE

\* if cls._client is not None / if cls._instance is not None
HasConnection(ref) == ref # NoConn

\* A new connection object of class k is created: it gets the next number and
\* has had no close call yet.
Create(k) ==
    /\ made' = [made EXCEPT ![k] = @ + 1]
    /\ closes' = [closes EXCEPT ![k] = Append(@, 0)]

\* aclose() / close() is called on object c of class k.
CallClose(k, c) == closes' = [closes EXCEPT ![k][c] = @ + 1]

\* A task calls a connection operation.
Calls(t, name) ==
    /\ cpc[t] = "idle"
    /\ ops[t] < MaxOps
    /\ ops' = [ops EXCEPT ![t] = @ + 1]
    /\ op' = [op EXCEPT ![t] = name]

\* GitHubService.get_client
GetClient(t) ==
    /\ Calls(t, "get_client")
    /\ IF client = NoConn
       THEN /\ client' = made["GitHubService"] + 1
            /\ Create("GitHubService")
       ELSE UNCHANGED <<client, made, closes>>
    /\ got' = [got EXCEPT ![t]["GitHubService"] = client']
    /\ UNCHANGED <<instance, lock, cpc, closing, blocked, getVars, linkVars, wrapVars>>

\* GitHubService.get_client, httpx.AsyncClient() raising: nothing is assigned,
\* "async with" releases the lock, the error propagates.
GetClientFails(t) ==
    /\ Calls(t, "get_client")
    /\ client = NoConn
    /\ got' = [got EXCEPT ![t]["GitHubService"] = NoConn]
    /\ UNCHANGED <<client, made, closes, instance, lock, cpc, closing, blocked,
                   getVars, linkVars, wrapVars>>

\* GitHubService.close_client up to its await: calling aclose() on None would
\* raise AttributeError.
CloseClient(t) ==
    /\ Calls(t, "close_client")
    /\ IF HasConnection(client)
       THEN IF client = NoConn
            THEN /\ cpc' = [cpc EXCEPT ![t] = "raised"]
                 /\ UNCHANGED <<closes, closing>>
            ELSE /\ CallClose("GitHubService", client)
                 /\ closing' = [closing EXCEPT ![t] = client]
                 /\ cpc' = [cpc EXCEPT ![t] = "aclose"]
       ELSE UNCHANGED <<closes, closing, cpc>>
    /\ UNCHANGED <<client, instance, lock, made, got, blocked, getVars, linkVars, wrapVars>>

\* Mutant: close_client leaves the reference as it is.
RefKeptAfterClose(ref) == ref

\* cls._client = None
RefAfterClose(ref) == NoConn

\* await cls._client.aclose() is over: cls._client = None
ClientClosed(t) ==
    /\ cpc[t] = "aclose"
    /\ client' = RefAfterClose(client)
    /\ closing' = [closing EXCEPT ![t] = NoConn]
    /\ cpc' = [cpc EXCEPT ![t] = "idle"]
    /\ UNCHANGED <<instance, lock, made, closes, op, ops, got, blocked, getVars, linkVars, wrapVars>>

\* RedisClient.get_client from the moment the task has the lock: it returns
\* the instance, or goes on to create one, holding the lock.
WithLock(t) ==
    IF instance = NoConn
    THEN /\ lock' = t
         /\ cpc' = [cpc EXCEPT ![t] = "from_url"]
         /\ UNCHANGED got
    ELSE /\ got' = [got EXCEPT ![t]["RedisClient"] = instance]
         /\ cpc' = [cpc EXCEPT ![t] = "idle"]
         /\ UNCHANGED lock

\* RedisClient.get_client is called: the task takes the lock or waits for it.
RedisGetClient(t) ==
    /\ Calls(t, "RedisClient.get_client")
    /\ IF LockFree(lock)
       THEN /\ WithLock(t)
            /\ blocked' = [blocked EXCEPT ![t] = FALSE]
       ELSE /\ cpc' = [cpc EXCEPT ![t] = "lock"]
            /\ blocked' = [blocked EXCEPT ![t] = TRUE]
            /\ UNCHANGED <<lock, got>>
    /\ UNCHANGED <<client, instance, made, closes, closing, getVars, linkVars, wrapVars>>

\* A task that waited for the lock gets it.
RedisLockAcquired(t) ==
    /\ cpc[t] = "lock"
    /\ LockFree(lock)
    /\ WithLock(t)
    /\ UNCHANGED <<client, instance, made, closes, op, ops, closing, blocked, getVars, linkVars, wrapVars>>

\* await redis.from_url(...) is over: the instance is set, the lock released,
\* the instance returned.
RedisConnected(t) ==
    /\ cpc[t] = "from_url"
    /\ instance' = made["RedisClient"] + 1
    /\ Create("RedisClient")
    /\ lock' = NoTask
    /\ got' = [got EXCEPT ![t]["RedisClient"] = instance']
    /\ cpc' = [cpc EXCEPT ![t] = "idle"]
    /\ UNCHANGED <<client, op, ops, closing, blocked, getVars, linkVars, wrapVars>>

\* Mutant: the lock is taken with acquire() and released only after the
\* assignment.
LockKeptAfterFailure(l) == l

\* The lock once an exception or a cancellation has left the "async with"
\* block of get_client.
LockAfterFailure(l) == NoTask

\* await redis.from_url(...) raises, or the task is cancelled in it: the
\* assignment to cls._instance does not happen, the lock is released, and
\* get_client returns nothing.
RedisConnectFails(t) ==
    /\ cpc[t] = "from_url"
    /\ lock' = LockAfterFailure(lock)
    /\ got' = [got EXCEPT ![t]["RedisClient"] = NoConn]
    /\ cpc' = [cpc EXCEPT ![t] = "idle"]
    /\ UNCHANGED <<client, instance, made, closes, op, ops, closing, blocked,
                   getVars, linkVars, wrapVars>>

\* RedisClient.close up to its await.
RedisClose(t) ==
    /\ Calls(t, "RedisClient.close")
    /\ IF HasConnection(instance)
       THEN IF instance = NoConn
            THEN /\ cpc' = [cpc EXCEPT ![t] = "raised"]
                 /\ UNCHANGED <<closes, closing>>
            ELSE /\ CallClose("RedisClient", instance)
                 /\ closing' = [closing EXCEPT ![t] = instance]
                 /\ cpc' = [cpc EXCEPT ![t] = "close"]
       ELSE UNCHANGED <<closes, closing, cpc>>
    /\ UNCHANGED <<client, instance, lock, made, got, blocked, getVars, linkVars, wrapVars>>

\* Mutant: close() ends with cls._instance = None.
InstanceClearedAfterClose(ref) == NoConn

\* cls._instance once close() is over: close() has no statement after the
\* awaited close (lines 45-46).
InstanceAfterClose(ref) == ref

\* await cls._instance.close() is over: close() returns.
RedisClosed(t) ==
    /\ cpc[t] = "close"
    /\ instance' = InstanceAfterClose(instance)
    /\ closing' = [closing EXCEPT ![t] = NoConn]
    /\ cpc' = [cpc EXCEPT ![t] = "idle"]
    /\ UNCHANGED <<client, lock, made, closes, op, ops, got, blocked, getVars, linkVars, wrapVars>>

NextConn ==
    \/ \E t \in Tasks : GetClient(t)
    \/ \E t \in Tasks : CloseClient(t)
    \/ \E t \in Tasks : ClientClosed(t)
    \/ \E t \in Tasks : RedisGetClient(t)
    \/ \E t \in Tasks : RedisLockAcquired(t)
    \/ \E t \in Tasks : RedisConnected(t)
    \/ \E t \in Tasks : RedisConnectFails(t)
    \/ \E t \in Tasks : GetClientFails(t)
    \/ \E t \in Tasks : RedisClose(t)
    \/ \E t \in Tasks : RedisClosed(t)

SpecConn == Init /\ [][NextConn]_vars

\* ------------------------------------------------------------ properties
\* Task t's eval is served in this step.
EvalStep(t) == pc[t] = "eval" /\ pc'[t] \notin {"eval", "failed", "cancelled"}

Present(k) == store[k].val # Absent

\* C1: when the script runs with a candidate timestamp strictly less than the
\* stored timestamp it returns 0 and leaves the four keys, values and
\* expiries, as they were.
C1_StaleCandidateNotApplied ==
    [][\A t \in Tasks :
          (EvalStep(t) /\ Present("timestamp") /\ args[t].ts < store["timestamp"].val)
              => (applied'[t] = 0 /\ store' = store)]_vars

\* A task's eval was refused while the record stayed in place.
C1_Witness ==
    \E t \in Tasks :
        /\ applied[t] = 0
        /\ Present("timestamp") /\ Present("reset")
        /\ pc[t] = "done"

\* C2 as stated: with a candidate greater than or equal to the stored timestamp,
\* or none stored, the script returns 1 and all four keys afterwards hold
\* values of that one update.
C2_AllFourOverwritten ==
    [][\A t \in Tasks :
          (EvalStep(t) /\ (~Present("timestamp") \/ args[t].ts >= store["timestamp"].val))
              => /\ applied'[t] = 1
                 /\ \A k \in Keys : store'[k].val # Absent /\ store'[k].src = response[t].seq]_vars

\* C2 amended: with such a candidate the script returns 1 and, in that one
\* step, overwrites timestamp and reset, and remaining / limit when the value
\* supplied for it is non-empty, all with the expiry now + ttl; a key whose
\* supplied value is empty is left as it was.
C2_AppliedWritesSuppliedKeys ==
    [][\A t \in Tasks :
          (EvalStep(t) /\ (~Present("timestamp") \/ args[t].ts >= store["timestamp"].val))
              => LET r == response[t]
                     e(v) == [val |-> v, exp |-> now + args[t].ttl, src |-> r.seq]
                 IN /\ applied'[t] = 1
                    /\ store'["timestamp"] = e(args[t].ts)
                    /\ store'["reset"] = e(r.reset)
                    /\ store'["remaining"] =
                          IF r.remaining # Absent THEN e(r.remaining) ELSE store["remaining"]
                    /\ store'["limit"] =
                          IF r.limit # Absent THEN e(r.limit) ELSE store["limit"]]_vars

\* An update was applied over an earlier one and kept the earlier remaining
\* value, for which it supplied none.
C2_Witness ==
    \E t \in Tasks :
        /\ applied[t] = 1
        /\ Present("timestamp") /\ Present("remaining")
        /\ store["timestamp"].src > store["remaining"].src

\* C3: once the record holds the values of a response, a caller processing a
\* response the server issued earlier never overwrites it with that older
\* response's values.  Stated for the writes whose candidate timestamp is
\* strictly later than the stored one, so that a violation does not rest on
\* two clock readings being equal.
C3_NoOlderResponseOverwrites ==
    [][\A t \in Tasks :
          (EvalStep(t) /\ Present("timestamp") /\ args[t].ts > store["timestamp"].val)
              => \A k \in Keys :
                    (Present(k) /\ store'[k] # store[k]) => store'[k].src >= store[k].src]_vars

\* C4 as stated: the keys present all expire at the same instant.
C4_OneExpiry ==
    \A j, k \in Keys : (Present(j) /\ Present(k)) => store[j].exp = store[k].exp

\* C4 amended: timestamp and reset are present together, come from one update
\* and share one expiry; remaining / limit shares it whenever its value comes
\* from the same update as the stored timestamp.
C4_ExpirySharedPerUpdate ==
    /\ Present("timestamp") <=> Present("reset")
    /\ store["timestamp"].exp = store["reset"].exp
    /\ store["timestamp"].src = store["reset"].src
    /\ \A k \in {"remaining", "limit"} :
          (Present(k) /\ Present("timestamp") /\ store[k].src = store["timestamp"].src)
              => store[k].exp = store["timestamp"].exp
    /\ \A k \in Keys : Present(k) => store[k].exp > now

\* timestamp and reset have expired while an older remaining is still there.
C4_Witness ==
    /\ ~Present("timestamp") /\ ~Present("reset")
    /\ Present("remaining") /\ Present("limit")
    /\ now > 0

PreFlight == {"check_reset", "sleep"}

\* C5: within one get() the pre-flight check (both cache reads and any
\* throttle sleep) is over before an HTTP request is issued, and a response
\* has been received before the sync write for it is attempted.
C5_CheckThenRequestThenSync ==
    \A t \in Tasks :
        /\ pc[t] \in PreFlight \cup {"idle"} => nReq[t] = 0
        /\ nReq[t] > 0 => nCheck[t] >= 1
        /\ nOk[t] <= nReq[t] /\ nSync[t] <= nOk[t]
        /\ pc[t] = "await_response" => nOk[t] < nReq[t] /\ nSync[t] < nReq[t]
        /\ pc[t] = "eval" => /\ nOk[t] = nReq[t]
                             /\ response[t].seq # 0
                             /\ response[t].seq <= issued
        /\ applied[t] # Absent => nOk[t] >= 1

\* A paginated get() ran its check, issued two requests one after the other
\* and had both sync writes served, the last one applied.
C5_Witness ==
    \E t \in Tasks :
        /\ pc[t] = "done" /\ applied[t] = 1
        /\ nCheck[t] = 1 /\ nReq[t] = 2 /\ nSync[t] = 2
        /\ store["timestamp"].src = issued

\* What the pre-flight check of task t read, while t is between the check's
\* decision and its first request.
Decided(t) == pc[t] \in {"sleep", "request"} /\ nReq[t] = 0

\* C6: if the check read remaining < 10 and a reset with wait = reset - now > 0,
\* the caller is put to sleep for wait + 1 seconds, and its request is not
\* issued before that time has passed.
C6_ThrottleSleepsWaitPlusOne ==
    \A t \in Tasks :
        LET wait == seen[t].rst - seen[t].at IN
        (/\ Decided(t)
         /\ seen[t].rem # Absent /\ seen[t].rem < 10
         /\ seen[t].rst # Absent /\ wait > 0)
            => /\ wake[t] - seen[t].at = wait + 1
               /\ pc[t] = "request" => now - seen[t].at >= wait + 1

\* A caller that read remaining = 5 and reset = 30 at instant 0 has slept its
\* 31 seconds and is about to issue its request.
C6_Witness ==
    \E t \in Tasks :
        /\ pc[t] = "request" /\ nReq[t] = 0
        /\ seen[t].rem = 5 /\ seen[t].rst = 30 /\ seen[t].at = 0
        /\ wake[t] = 31 /\ now >= 31

\* C7: the check never suspends the caller when remaining is absent, when
\* remaining >= 10, when reset is absent, or when reset - now <= 0.
C7_NoSleepOtherwise ==
    \A t \in Tasks :
        (/\ Decided(t)
         /\ \/ seen[t].rem = Absent
            \/ seen[t].rem >= 10
            \/ seen[t].rst = Absent
            \/ seen[t].rst - seen[t].at <= 0)
            => pc[t] = "request" /\ wake[t] = 0

\* A caller read remaining = 5 with a reset that is not in the future, and went
\* on to its request without sleeping.
C7_Witness ==
    \E t \in Tasks :
        /\ pc[t] = "request" /\ nReq[t] = 0 /\ wake[t] = 0
        /\ seen[t].rem = 5 /\ seen[t].rst = 30 /\ seen[t].at >= 30

\* C8: in a paginated get() every page's request is preceded by a pre-flight
\* check of its own.
C8_CheckBeforeEveryPage ==
    \A t \in Tasks : nReq[t] <= nCheck[t]

NonSuccess(st) == st < 200 \/ st > 299

\* Task t's response reaches it in this step (it is not lost in transit).
Received(t) ==
    pc[t] = "await_response" /\ pc'[t] \notin {"await_response", "failed", "cancelled"}

\* C9: for a non-2xx response get() raises before any write of the record is
\* attempted for it: the step that receives it raises and leaves the record and
\* the count of sync calls alone, no eval is ever pending for such a response,
\* and no key of the record ever holds values of a response that is waiting
\* with a non-2xx status.
C9_RaiseBeforeWrite ==
    /\ [][\A t \in Tasks :
            (Received(t) /\ NonSuccess(response[t].status))
                => /\ pc'[t] = "raised"
                   /\ store' = store
                   /\ nSync'[t] = nSync[t]
                   /\ args'[t] = args[t]]_vars
    /\ [](\A t \in Tasks :
            /\ pc[t] = "eval" => ~NonSuccess(response[t].status)
            /\ pc[t] = "raised" => nSync[t] < nReq[t]
            /\ (pc[t] = "await_response" /\ NonSuccess(response[t].status))
                  => \A k \in Keys : store[k].src # response[t].seq)

\* The second page of a paginated get() was refused by the server: the call
\* raised, and the record still holds the first page's values.
C9_Witness ==
    \E t \in Tasks :
        /\ pc[t] = "raised" /\ paginate[t]
        /\ nReq[t] = 2 /\ nSync[t] = 1 /\ applied[t] = 1
        /\ issued = 2 /\ store["timestamp"].src = 1

\* C10: a non-2xx response makes get() fail at once, and the failed call
\* issues no further HTTP request, neither a retry nor a next page.
C10_NoRequestAfterError ==
    [][\A t \in Tasks :
          /\ (Received(t) /\ NonSuccess(response[t].status))
                => pc'[t] = "raised"
          /\ pc[t] = "raised"
                => pc'[t] = "raised" /\ nReq'[t] = nReq[t] /\ response'[t] = NoResponse]_vars

\* A paginated get() failed on its first page and has issued nothing since,
\* while the other task went on issuing requests.
C10_Witness ==
    \E t \in Tasks :
        /\ pc[t] = "raised" /\ paginate[t] /\ nReq[t] = 1 /\ nOk[t] = 0
        /\ issued >= 3

Failed == {"raised", "failed"}

\* C11: a paginated get() one of whose pages fails -- a non-2xx response, a
\* request lost in transit, an unreachable cache -- ends with an error and
\* returns nothing, whatever it has accumulated; a call that returns has had
\* every one of its requests answered with a 2xx response, and returns a list.
C11_FailedPageReturnsNothing ==
    /\ [][\A t \in Tasks :
            /\ (paginate[t] /\ Received(t) /\ NonSuccess(response[t].status))
                  => pc'[t] \in Failed
            /\ pc[t] \in Failed => pc'[t] = pc[t] /\ ret'[t] = ret[t]]_vars
    /\ [](\A t \in Tasks :
            paginate[t] =>
                /\ pc[t] \in Failed => ret[t] = NoReturn
                /\ pc[t] = "done" => nOk[t] = nReq[t] /\ ret[t] # NoReturn
                /\ ret[t] # NoReturn => pc[t] = "done")

\* A paginated get() whose first page had been accumulated was refused its
\* second page, another failed on an unreachable dependency after a page had
\* been answered; neither returned anything.
C11_Witness ==
    \E t, u \in Tasks :
        /\ paginate[t] /\ pc[t] = "raised" /\ nReq[t] = 2 /\ nOk[t] = 1
        /\ paginate[u] /\ pc[u] = "failed" /\ nOk[u] = 1
        /\ ret[t] = NoReturn /\ ret[u] = NoReturn

\* The items of pages 1..n of task t's collection, page after page.
RECURSIVE PagesInOrder(_, _)
PagesInOrder(t, n) ==
    IF n = 0 THEN <<>> ELSE PagesInOrder(t, n - 1) \o ResponseJson(t, n)

\* C12: a paginated get() that followed n pages returns exactly the items of
\* its n pages, concatenated in the order the pages arrived; between two pages
\* its accumulated list is that of the pages received so far.
C12_ReturnsPagesInArrivalOrder ==
    \A t \in Tasks :
        paginate[t] =>
            /\ pc[t] = "done" => ret[t] = PagesInOrder(t, nReq[t])
            /\ (pc[t] = "request" /\ nReq[t] >= 1)
                  => call[t].results = PagesInOrder(t, nReq[t])

\* A paginated get() returned after its second page: three items, the two of
\* page 1 first.
C12_Witness ==
    \E t \in Tasks :
        /\ paginate[t] /\ pc[t] = "done" /\ nReq[t] = 2
        /\ Len(ret[t]) = 3
        /\ ret[t][1] = ResponseJson(t, 1)[1] /\ ret[t][3] = ResponseJson(t, 2)[1]

\* Task t issues an HTTP request in this step, with the url and the parameters
\* its get() holds.
Sends(t) == nReq'[t] = nReq[t] + 1

\* C13: the first request of a paginated get() goes to the endpoint with the
\* parameters the caller supplied (an empty set if none); every later request
\* goes to the next URL the previous page supplied, as it is, with an empty
\* parameter set.
C13_ParamsWithFirstPageOnly ==
    [][\A t \in Tasks :
          (paginate[t] /\ Sends(t)) =>
              IF nReq[t] = 0
              THEN /\ call[t].url = EndpointUrl
                   /\ call[t].current_params =
                          (IF call[t].params = NoParams THEN EmptyParams ELSE call[t].params)
              ELSE /\ call[t].url = nReq[t]
                   /\ call[t].current_params = EmptyParams]_vars

\* One paginated get() is about to ask for its second page, at the next URL of
\* page 1 and with no parameters, while another is about to ask for its first
\* page with the caller's parameters.
C13_Witness ==
    \E t, u \in Tasks :
        /\ paginate[t] /\ pc[t] = "request" /\ nReq[t] = 1
        /\ call[t].url = 1 /\ call[t].current_params = EmptyParams
        /\ paginate[u] /\ pc[u] = "request" /\ nReq[u] = 0
        /\ call[u].url = EndpointUrl /\ call[u].current_params = CallerParams

\* C14: a paginated get() goes on to another request exactly when the response
\* it has just synced carried a next link, and returns as soon as one did not:
\* a call that is about to issue a request has had a next link on every
\* response so far, and a call that returned issued one request more than the
\* number of its responses with a next link.
C14_OneRequestPerNextLink ==
    \A t \in Tasks :
        paginate[t] =>
            /\ pc[t] = "done" => nReq[t] = 1 + nNext[t]
            /\ pc[t] \in {"request", "await_response"} =>
                   nReq[t] = nNext[t] + (IF pc[t] = "request" THEN 0 ELSE 1)
            /\ pc[t] = "eval" =>
                   nReq[t] = nNext[t] + (IF response[t].next THEN 0 ELSE 1)

\* One paginated get() returned after two requests, its first response having
\* carried a next link; another returned after its only request.
C14_Witness ==
    \E t, u \in Tasks :
        /\ paginate[t] /\ pc[t] = "done" /\ nReq[t] = 2 /\ nNext[t] = 1
        /\ paginate[u] /\ pc[u] = "done" /\ nReq[u] = 1 /\ nNext[u] = 0

\* Requests of task t's get() that are out and not answered yet.
InFlight(t) == IF pc[t] = "await_response" THEN 1 ELSE 0

\* C15: the pages of a paginated get() are fetched one after the other: when
\* it issues a request, every earlier request of the call has been answered,
\* synced and accumulated, and nothing of an earlier page is pending; so at
\* most one HTTP request of the call is in flight at any time.
C15_PagesStrictlySequential ==
    /\ [][\A t \in Tasks :
            (paginate[t] /\ Sends(t)) =>
                /\ response[t] = NoResponse /\ args[t] = NoArgs
                /\ nOk[t] = nReq[t] /\ nSync[t] = nReq[t]
                /\ call[t].results = PagesInOrder(t, nReq[t])]_vars
    /\ [](\A t \in Tasks :
            paginate[t] =>
                /\ InFlight(t) <= 1
                /\ pc[t] \in {"await_response", "raised"} => nOk[t] = nReq[t] - 1
                /\ pc[t] \in {"request", "eval", "done"} => nOk[t] = nReq[t])

\* The second request of a paginated get() is in flight, the first page having
\* been answered, synced and accumulated.
C15_Witness ==
    \E t \in Tasks :
        /\ paginate[t] /\ pc[t] = "await_response"
        /\ nReq[t] = 2 /\ nOk[t] = 1 /\ nSync[t] = 1
        /\ call[t].results = ResponseJson(t, 1)

\* C16: get() calls _update_rate_limit exactly once for every 2xx response it
\* receives, and for nothing else: once in a non-paginated call, once per page
\* in a paginated one, the call for page k being made when page k arrives and
\* before page k + 1 is asked for.  For a response with a reset header the
\* call goes on to the eval, with arguments computed from that response.
C16_OneSyncPerSuccessfulResponse ==
    /\ [][\A t \in Tasks :
            /\ (Received(t) /\ ~NonSuccess(response[t].status))
                  => /\ nSync'[t] = nSync[t] + 1
                     /\ nSync'[t] = nReq[t]
                     /\ response[t].reset # Absent
                           => /\ pc'[t] = "eval"
                              /\ response'[t] = response[t]
                              /\ args'[t] = UpdateArgs(response[t], now)
            /\ nSync'[t] # nSync[t]
                  => Received(t) /\ ~NonSuccess(response[t].status)
            /\ Sends(t) => nSync[t] = nReq[t]]_vars
    /\ [](\A t \in Tasks : nSync[t] = nOk[t])

\* A paginated get() returned after two pages and two sync calls, a
\* non-paginated one after its one response and one sync call.
C16_Witness ==
    \E t, u \in Tasks :
        /\ paginate[t] /\ pc[t] = "done" /\ nOk[t] = 2 /\ nSync[t] = 2
        /\ ~paginate[u] /\ pc[u] = "done" /\ nOk[u] = 1 /\ nSync[u] = 1

\* ------------------------------------------------ properties of SpecConn
\* No close_client call has reached a client so far.
NoCloseYet(k) == \A i \in 1..Len(closes[k]) : closes[k][i] = 0

\* C17: tasks that call get_client while no connection exists create the
\* connection once and all receive that one object.  For RedisClient, whose
\* instance is never cleared, at most one object is ever created, its creation
\* is under way in at most one task, which holds the lock, and every
\* get_client returns the instance; for GitHubService the same holds as long
\* as no close_client has closed a client.
C17_CreatedOnceSharedByAll ==
    /\ made["RedisClient"] <= 1
    /\ \A t, u \in Tasks :
          (cpc[t] = "from_url" /\ cpc[u] = "from_url") => t = u
    /\ \A t \in Tasks :
          /\ cpc[t] = "from_url" => lock = t /\ instance = NoConn
          /\ got[t]["RedisClient"] \in {NoConn, instance}
    /\ NoCloseYet("GitHubService") =>
          /\ made["GitHubService"] <= 1
          /\ \A t \in Tasks : got[t]["GitHubService"] \in {NoConn, client}

\* Both tasks called get_client of both classes while there was no connection,
\* one of them waiting at the lock while the other created the Redis instance:
\* one object of each class exists and both tasks hold it.
C17_Witness ==
    /\ made = [k \in Classes |-> 1]
    /\ \A t \in Tasks : got[t] = [k \in Classes |-> 1] /\ ops[t] = 2
    /\ \E t \in Tasks : blocked[t]
    /\ NoCloseYet("GitHubService") /\ NoCloseYet("RedisClient")

\* HTTP clients that were created and on which aclose() has not been called.
LiveClients == {i \in 1..made["GitHubService"] : closes["GitHubService"][i] = 0}

\* C18: at most one live HTTP client exists at any time, whatever the
\* interleaving of get_client and close_client calls.
C18_AtMostOneLiveClient == Cardinality(LiveClients) <= 1

\* Task t calls the named operation in this step.
CallStep(t, name) == ops'[t] = ops[t] + 1 /\ op'[t] = name

\* C19: a close call that finds no connection returns at once without raising,
\* calls close on no connection object, and leaves the reference absent.
C19_CloseWithoutConnection ==
    [][\A t \in Tasks :
          /\ (CallStep(t, "close_client") /\ client = NoConn)
                => cpc'[t] = "idle" /\ closes' = closes /\ client' = NoConn
          /\ (CallStep(t, "RedisClient.close") /\ instance = NoConn)
                => cpc'[t] = "idle" /\ closes' = closes /\ instance' = NoConn]_vars

\* One task has called close_client and the other RedisClient.close, neither
\* class ever having had a connection: both calls returned.
C19_Witness ==
    \E t, u \in Tasks :
        /\ op[t] = "close_client" /\ ops[t] = 1 /\ cpc[t] = "idle"
        /\ op[u] = "RedisClient.close" /\ ops[u] = 1 /\ cpc[u] = "idle"
        /\ made = [k \in Classes |-> 0]
        /\ client = NoConn /\ instance = NoConn

\* The Redis instance has been closed: a close() on it has returned and none
\* is under way.
InstanceClosed ==
    /\ instance # NoConn
    /\ closes["RedisClient"][instance] >= 1
    /\ \A t \in Tasks : cpc[t] # "close"

\* C20: RedisClient.close() called when the connection has already been
\* closed is a no-op: it does not call close on the connection again.
C20_SecondCloseIsNoOp ==
    [][\A t \in Tasks :
          (CallStep(t, "RedisClient.close") /\ InstanceClosed) => closes' = closes]_vars

\* Task t's close_client comes back from its awaited aclose() in this step.
AcloseReturns(t) == cpc[t] = "aclose" /\ cpc'[t] # "aclose"

\* C21: a close_client call that finds a client calls aclose() on that client,
\* once, and clears the singleton when the aclose() is over; a get_client that
\* then finds the singleton absent creates a new client (unless the creation
\* raises), on which aclose() was never called.  Outside a close_client under way the singleton never refers
\* to a closed client.
C21_CloseClosesOnceAndResets ==
    /\ [][\A t \in Tasks :
            /\ (CallStep(t, "close_client") /\ client # NoConn)
                  => /\ closes' = [closes EXCEPT !["GitHubService"][client] = @ + 1]
                     /\ closing'[t] = client
                     /\ cpc'[t] = "aclose"
            /\ AcloseReturns(t)
                  => client' = NoConn /\ closes' = closes /\ cpc'[t] = "idle"
            /\ (CallStep(t, "get_client") /\ client = NoConn /\ ~GetClientFails(t))
                  => /\ client' = made["GitHubService"] + 1
                     /\ got'[t]["GitHubService"] = client'
                     /\ closes'["GitHubService"][client'] = 0]_vars
    /\ []((\A t \in Tasks : cpc[t] # "aclose" /\ client # NoConn)
            => closes["GitHubService"][client] = 0)

\* One task got a client, closed it and got a client again: the first client
\* had one aclose() call, the second is new and open.
C21_Witness ==
    \E t \in Tasks :
        /\ ops[t] = 3 /\ op[t] = "get_client" /\ cpc[t] = "idle"
        /\ \A u \in Tasks \ {t} : ops[u] = 0
        /\ closes["GitHubService"] = <<1, 0>>
        /\ client = 2 /\ got[t]["GitHubService"] = 2

\* C22: the TTL handed to the script for a response with reset header r,
\* processed at instant now, is max(r - now, 60) in whole seconds: never below
\* 60, also when r is in the past, and r - now when that exceeds 60.
C22_TtlIsResetMinusNowFloored60 ==
    \A t \in Tasks :
        pc[t] = "eval" =>
            LET d == response[t].reset - args[t].ts
            IN /\ args[t].ttl >= 60
               /\ d > 60 => args[t].ttl = d
               /\ d <= 60 => args[t].ttl = 60

\* Two evals are pending: one for a reset that already lies in the past, with
\* TTL 60, one for a reset more than 60 seconds ahead, with that difference.
C22_Witness ==
    \E t, u \in Tasks :
        /\ pc[t] = "eval" /\ response[t].reset < args[t].ts /\ args[t].ttl = 60
        /\ pc[u] = "eval" /\ response[u].reset - args[u].ts > 60
        /\ args[u].ttl = response[u].reset - args[u].ts

\* C23: for a 2xx response without a reset header the sync does nothing in the
\* cache, whether or not remaining and limit headers are there: the step that
\* receives it leaves the record as it is and goes on without an eval, and no
\* eval is ever pending for such a response.
C23_NoResetHeaderNoCacheOperation ==
    /\ [][\A t \in Tasks :
            (Received(t) /\ ~NonSuccess(response[t].status) /\ response[t].reset = Absent)
                => /\ store' = store
                   /\ pc'[t] \in {"request", "done"}
                   /\ args'[t] = NoArgs
                   /\ applied'[t] = applied[t]]_vars
    /\ [](\A t \in Tasks : pc[t] = "eval" => response[t].reset # Absent)

\* Both tasks returned, each after one 2xx response whose sync ran no eval,
\* and the record is still empty.
C23_Witness ==
    /\ \A t \in Tasks :
          pc[t] = "done" /\ nOk[t] = 1 /\ nSync[t] = 1 /\ applied[t] = Absent
    /\ \A k \in Keys : ~Present(k)
    /\ issued = 2

OptionalKeys == {"remaining", "limit"}

\* C24: an eval that is applied writes the remaining (limit) key exactly when
\* the response carried that header: without the header the stored entry,
\* value and expiry, stays what it was; timestamp and reset are overwritten
\* with the values of this response in either case.
C24_OptionalKeysWrittenOnlyIfSupplied ==
    [][\A t \in Tasks :
          (EvalStep(t) /\ applied'[t] = 1) =>
              /\ \A k \in OptionalKeys :
                    IF response[t][k] = Absent
                    THEN store'[k] = store[k]
                    ELSE /\ store'[k].val = response[t][k]
                         /\ store'[k].src = response[t].seq
              /\ store'["timestamp"].val = args[t].ts
              /\ store'["reset"].val = response[t].reset
              /\ store'["timestamp"].src = response[t].seq
              /\ store'["reset"].src = response[t].seq]_vars

\* The record holds timestamp and reset of a later response and the limit of
\* an earlier one, kept with the expiry it had.
C24_Witness ==
    /\ Present("timestamp") /\ Present("reset") /\ Present("limit")
    /\ store["reset"].src = store["timestamp"].src
    /\ store["limit"].src < store["timestamp"].src
    /\ store["limit"].exp # store["timestamp"].exp

\* C25: an eval that reports 'not applied' is no error: get() raises nothing,
\* goes on to the next page when it paginates and the response carried a next
\* link, and otherwise returns the data of its responses.
C25_LostRaceIsNotAnError ==
    [][\A t \in Tasks :
          (EvalStep(t) /\ applied'[t] = 0) =>
              /\ pc'[t] \notin Failed
              /\ IF paginate[t] /\ response[t].next
                 THEN /\ pc'[t] = "request"
                      /\ call'[t].results = PagesInOrder(t, nReq[t])
                      /\ ret'[t] = NoReturn
                 ELSE /\ pc'[t] = "done"
                      /\ ret'[t] = IF paginate[t] THEN PagesInOrder(t, nReq[t])
                                                  ELSE ResponseJson(t, nReq[t])]_vars

\* A paginated get() whose first page lost the write race to the other task
\* has kept the page and is about to ask for its second page.
C25_Witness ==
    \E t, u \in Tasks :
        /\ paginate[t] /\ pc[t] = "request" /\ nReq[t] = 1 /\ applied[t] = 0
        /\ call[t].results = ResponseJson(t, 1)
        /\ pc[u] = "done" /\ applied[u] = 1 /\ ret[u] # NoReturn

\* Positions of get() inside _check_rate_limit, at one of its two cache reads.
CacheReads == {"idle", "check_reset"}

\* C26: when a cache read of the pre-flight check fails, get() fails there:
\* the step leaves the record alone, the failed call stays failed, completes
\* no check and issues no HTTP request; and no call reaches its request
\* without a check in which both reads were answered.
C26_PreFlightCacheErrorPropagates ==
    /\ [][\A t \in Tasks :
            /\ (pc[t] \in CacheReads
                   /\ pc'[t] \notin CacheReads \cup PreFlight \cup {"request", "cancelled"})
                  => /\ pc'[t] = "failed"
                     /\ nReq'[t] = 0 /\ nCheck'[t] = nCheck[t]
                     /\ store' = store /\ ret'[t] = NoReturn
            /\ (pc[t] \in CacheReads /\ pc'[t] = "request")
                  => nCheck'[t] = nCheck[t] + 1
            /\ pc[t] = "failed"
                  => /\ pc'[t] = "failed"
                     /\ nReq'[t] = nReq[t] /\ nCheck'[t] = nCheck[t]
                     /\ issued' # issued => \E u \in Tasks \ {t} : Sends(u)]_vars
    /\ [](\A t \in Tasks : pc[t] = "request" => nCheck[t] >= 1)

\* One get() failed at a cache read of its check, having issued no
\* request, while the other task's get() went through.
C26_Witness ==
    \E t, u \in Tasks :
        /\ pc[t] = "failed" /\ nReq[t] = 0 /\ nCheck[t] = 0 /\ ret[t] = NoReturn
        /\ pc[u] = "done" /\ issued = nReq[u] /\ issued >= 1

\* Task t's get() is cancelled in this step.
CancelStep(t) == pc[t] # "cancelled" /\ pc'[t] = "cancelled"

\* C27: a get() cancelled at a suspension point leaves the record either as it
\* was or as the script, run as a whole on the arguments of the pending eval,
\* makes it, the latter only when the eval was the call under way; never a
\* part of one together with a part of the other.
C27_CancelLeavesRecordWhole ==
    [][\A t \in Tasks :
          CancelStep(t) =>
              \/ store' = store
              \/ /\ pc[t] = "eval"
                 /\ store' = LuaUpdateRateLimit(store, EvalArgv(args[t], response[t]), now)[1]]_vars

\* A get() was cancelled in its eval, the only one there has been, and the
\* record holds the update; the other task's get() was cancelled in its sleep.
C27_Witness ==
    \E t, u \in Tasks :
        /\ pc[t] = "cancelled" /\ nReq[t] = 1 /\ nSync[t] = 1 /\ applied[t] = Absent
        /\ issued = 1
        /\ \A k \in Keys : Present(k) /\ store[k].src = 1
        /\ pc[u] = "cancelled" /\ nCheck[u] = 1 /\ nReq[u] = 0

\* The largest expiry a key written up to now can have: the TTL is
\* max(reset - then, 60) for an instant `then` at which the response was
\* processed, at most the largest reset header there is, and the key is set
\* no later than now.
LatestExpiry == now + 100

\* The record holds a value of response s whose expiry lies within the time
\* the clock covers.
Due(s) == \E k \in Keys : store[k].src = s /\ store[k].exp <= MaxTime

\* C28: every key that is present has an expiry, ahead of now and no further
\* ahead than the largest TTL there is; so every value written goes away, by expiry if by nothing else, at the latest when
\* the clock reaches its expiry.  A check that finds no reset key does not
\* sleep, and a sleep lasts until one second after the reset that was read:
\* every sleeping call is resumed once that instant has come.
C28_RecordExpiresAndSleepsEnd ==
    /\ [](\A k \in Keys :
            Present(k) => store[k].exp > now /\ store[k].exp <= LatestExpiry)
    /\ [](\A t \in Tasks :
            pc[t] = "sleep" => wake[t] = seen[t].rst + 1 /\ seen[t].rst > seen[t].at)
    /\ [][\A t \in Tasks :
            (pc[t] = "check_reset" /\ ~Present("reset")) => pc'[t] # "sleep"]_vars
    /\ \A s \in 1..MaxIssued : []<>~Due(s)
    /\ \A t \in Tasks : []<>~(pc[t] = "sleep" /\ wake[t] <= MaxTime)

\* The record one task wrote has expired, every key of it, and the other
\* task, which slept on it, has been resumed and is about to issue its request.
C28_Witness ==
    \E t, u \in Tasks :
        /\ applied[u] = 1 /\ pc[u] = "done"
        /\ \A k \in Keys : ~Present(k)
        /\ pc[t] = "request" /\ wake[t] > 0 /\ now >= wake[t]

\* C29: tasks that coordinate through the record do not, together, issue more
\* requests within one quota window than the provider's quota (every request
\* of SpecQuota falls into the window that ends at WindowEnd).
C29_QuotaNotExceeded == now < WindowEnd => issued <= Quota

\* A header all of whose entries have their closing bracket.
WellFormed(l) == \A i \in 1..Len(l.entries) : l.entries[i].closed

\* The positions of the entries of a header whose relation is "next".
NextEntries(l) == {i \in 1..Len(l.entries) : l.entries[i].rel = "next"}

C31_NoUrlFromMissingOrMalformedHeader ==
    (/\ next_url # NotParsed
     /\ \/ link.entries = <<>>
        \/ ~WellFormed(link)
        \/ NextEntries(link) = {})
        => next_url = None

\* Task t is done with the response it holds: it has been synced, or needed no sync.
PageStep(t) ==
    /\ pc[t] \in {"await_response", "eval"}
    /\ pc'[t] \notin {"await_response", "eval", "raised", "failed", "cancelled"}

\* C32: when a successful page of a paginated get() comes with a Link header
\* that has an unterminated entry, get() returns after that page, with the
\* items accumulated so far and that page's, and issues no further request.
C32_MalformedHeaderEndsPagination ==
    [][\A t \in Tasks :
          (/\ PageStep(t)
           /\ paginate[t]
           /\ response[t].status = 200
           /\ ~WellFormed(response[t].link))
              => /\ pc'[t] = "done"
                 /\ ret'[t] = Extend(call[t].results, ResponseJson(t, nReq[t]))]_vars

\* C33: each call of get_user_info makes exactly one get("user") with no
\* params and no pagination; each call of get_user_events(username, per_page)
\* makes exactly one paginated get on users/{username}/events with params
\* {per_page}, per_page being 100 when the caller leaves it out.
C33_EndpointMethodsMakeOneGet ==
    /\ Len(get_calls) = Len(wrapper_calls)
    /\ \A i \in 1..Len(wrapper_calls) :
          LET w == wrapper_calls[i]
              g == get_calls[i]
          IN  IF w.name = "get_user_info"
              THEN g.endpoint = <<"user">> /\ g.params = <<>> /\ ~g.paginate
              ELSE /\ g.endpoint = <<"users", w.username, "events">>
                   /\ g.paginate
                   /\ Len(g.params) = 1
                   /\ g.params[1].key = "per_page"
                   /\ g.params[1].value = (IF w.per_page = Omitted THEN 100 ELSE w.per_page)

\* get_user_events with a page size of its caller's, then without one.
C33_Witness ==
    /\ Len(wrapper_calls) = 2
    /\ get_calls[1] = GetCall(<<"users", "octo", "events">>, <<[key |-> "per_page", value |-> 50]>>, TRUE)
    /\ wrapper_calls[2] = [name |-> "get_user_events", username |-> "mona", per_page |-> Omitted]
    /\ get_calls[2].params[1].value = 100

\* C34: when the cache is unreachable at the eval that follows a successful
\* response, get() fails: it returns nothing, neither that response's body nor
\* the pages it had accumulated, the record is left as it was, and the call
\* issues no further request.
C34_SyncCacheErrorFailsGet ==
    /\ [][\A t \in Tasks :
            /\ (pc[t] = "eval" /\ CacheUnreachable(t))
                  => /\ pc'[t] = "failed"
                     /\ ret'[t] = NoReturn /\ call'[t] = NoCall
                     /\ store' = store /\ nReq'[t] = nReq[t]
            /\ pc[t] = "failed"
                  => pc'[t] = "failed" /\ nReq'[t] = nReq[t] /\ ret'[t] = NoReturn]_vars
    /\ [](\A t \in Tasks : pc[t] = "failed" => ret[t] = NoReturn /\ call[t] = NoCall)

\* A paginated get() whose first page was a success with a next link failed in
\* that page's sync: one request, nothing returned.
C34_Witness ==
    \E t \in Tasks :
        /\ paginate[t] /\ pc[t] = "failed"
        /\ nOk[t] = 1 /\ nNext[t] = 1 /\ nSync[t] = 1 /\ nReq[t] = 1
        /\ ret[t] = NoReturn /\ call[t] = NoCall

\* C35: over any sequence of invocations of the script, the stored timestamp
\* never decreases while the timestamp key exists: a candidate older than the
\* stored value is refused and changes nothing, and is written only once the
\* key has expired.
C35_StoredTimestampNeverDecreases ==
    [][/\ (Present("timestamp") /\ store'["timestamp"].val # Absent)
             => store'["timestamp"].val >= store["timestamp"].val
       /\ \A t \in Tasks :
             (Invoke(t) /\ Present("timestamp")
                  /\ args'[t].ts < store["timestamp"].val)
                 => store' = store /\ applied'[t] = 0]_vars

\* The second invocation, with a candidate older than the first one's, was
\* applied: the first one's timestamp had expired.
C35_Witness ==
    \E t, u \in Tasks :
        /\ issued = 2
        /\ applied[t] = 1 /\ applied[u] = 1
        /\ args[u].ts < args[t].ts
        /\ store["timestamp"].src = 2
        /\ store["timestamp"].val = args[u].ts

\* C36: a get() runs its pre-flight check at most once and sleeps at most
\* once, in that check; when the sleep is over it goes on to its request
\* without reading the record again, whatever the record then holds.
C36_OneCheckOneSleep ==
    /\ [](\A t \in Tasks : nCheck[t] <= 1)
    /\ [][\A t \in Tasks :
            /\ (pc[t] # "sleep" /\ pc'[t] = "sleep")
                  => pc[t] = "check_reset" /\ nCheck[t] = 0 /\ nCheck'[t] = 1
            /\ (pc[t] = "sleep" /\ pc'[t] # "sleep")
                  => /\ pc'[t] \in {"request", "cancelled"}
                     /\ nCheck'[t] = nCheck[t]
                     /\ seen'[t] \in {seen[t], NotSeen}
            /\ (pc[t] = "request" /\ pc'[t] # "request")
                  => pc'[t] = "await_response" /\ nCheck'[t] = nCheck[t]]_vars

\* A task's sleep is over and it stands before its request with what it read
\* before the sleep, while the record holds other values by now.
C36_Witness ==
    \E t \in Tasks :
        /\ pc[t] = "request" /\ wake[t] > 0 /\ now >= wake[t] /\ nCheck[t] = 1
        /\ Present("remaining") /\ store["remaining"].val # seen[t].rem
        /\ Present("reset") /\ store["reset"].val # seen[t].rst

\* C37: the remaining and the reset value a pre-flight check decides on come
\* from one write of the record (one response), also when another caller's
\* update is applied between the check's two reads.
C37_CheckReadsOneWrite ==
    [][\A t \in Tasks :
          (/\ pc[t] = "check_reset" /\ pc'[t] \in {"sleep", "request"}
           /\ seen'[t].rem # Absent /\ seen'[t].rst # Absent
           /\ store["remaining"].src = store["reset"].src)
              => seen'[t].src = store["reset"].src]_vars

\* C38: when the creation of the connection in get_client fails or is
\* cancelled, the lock is released and the singleton stays absent: the lock is
\* only ever held by a task that is creating the connection, a later
\* get_client creates the connection anew, and no get_client returns an
\* object that was not created.
C38_FailedCreationReleasesLock ==
    /\ [][\A t \in Tasks :
            /\ RedisConnectFails(t)
                  => /\ lock' = NoTask /\ instance' = NoConn
                     /\ made' = made /\ got'[t]["RedisClient"] = NoConn
            /\ GetClientFails(t)
                  => client' = NoConn /\ made' = made /\ got'[t]["GitHubService"] = NoConn
            /\ (CallStep(t, "RedisClient.get_client") /\ instance = NoConn /\ lock = NoTask)
                  => cpc'[t] = "from_url" /\ lock' = t
            /\ (CallStep(t, "get_client") /\ client = NoConn /\ got'[t]["GitHubService"] # NoConn)
                  => made'["GitHubService"] = made["GitHubService"] + 1]_vars
    /\ [](/\ lock # NoTask => cpc[lock] = "from_url" /\ instance = NoConn
          /\ \A t \in Tasks : \A k \in Classes : got[t][k] \in 0..made[k])

\* A task's creation of the Redis connection failed; the task that had waited
\* for the lock then created the connection itself.
C38_Witness ==
    \E t, u \in Tasks :
        /\ op[t] = "RedisClient.get_client" /\ cpc[t] = "idle"
        /\ got[t]["RedisClient"] = NoConn
        /\ blocked[u] /\ cpc[u] = "idle"
        /\ got[u]["RedisClient"] = 1 /\ instance = 1 /\ made["RedisClient"] = 1
        /\ lock = NoTask

\* C39: RedisClient.close() never clears the memoized instance: once set it
\* stays the same object, closed or not, no second one is ever created, and
\* every get_client that returns after that returns it.
C39_ClosedInstanceStaysMemoized ==
    /\ [][/\ instance # NoConn => instance' = instance
          /\ \A t \in Tasks : RedisClosed(t) => instance' = instance /\ instance' # NoConn]_vars
    /\ [](/\ made["RedisClient"] <= 1
          /\ \A t \in Tasks : got[t]["RedisClient"] \in {NoConn, instance})

\* One task called get_client, close and get_client again: the second
\* get_client returned the object that had been closed, the only one created.
C39_Witness ==
    \E t, u \in Tasks :
        /\ t # u /\ ops[u] = 0
        /\ ops[t] = 3 /\ op[t] = "RedisClient.get_client" /\ cpc[t] = "idle"
        /\ made["RedisClient"] = 1 /\ closes["RedisClient"][1] = 1
        /\ got[t]["RedisClient"] = 1 /\ instance = 1

\* C40: close_client clears the reference only of the client it closed, and
\* every HTTP client that was created is either still referenced by the
\* singleton or has had aclose() called on it.
C40_NoClientLeaked ==
    /\ [][\A t \in Tasks :
            (cpc[t] = "aclose" /\ cpc'[t] # "aclose" /\ client' = NoConn)
                => client \in {NoConn, closing[t]}]_vars
    /\ [](\A i \in 1..made["GitHubService"] :
            i = client \/ closes["GitHubService"][i] >= 1)

====
